---------------------------- MODULE Spec2Model ----------------------------
(***************************************************************************)
(* Model of the two command-line utilities of the repository:              *)
(*   median.py       insertion sort, median selection and the CLI wrapper  *)
(*   weather_cli.py  the favourites list and the interactive menu flows    *)
(*                                                                         *)
(* Python lists are objects on a heap and names are references to them, so *)
(* that aliasing (in-place mutation versus work on a copy) is visible.     *)
(* Python indices are 0-based; At/Put translate them to TLA+ sequences.    *)
(* Numbers are modelled by integers (exactly representable floats); the    *)
(* result of a true division by 2 is the rational [num, den].              *)
(***************************************************************************)
EXTENDS Integers, Sequences, FiniteSets, TLC

VARIABLES
    \* ---- median.py: interpreter state
    heap,      \* the list objects: L0 caller's list, L1 list(numbers), L2 arr_show
    pc,        \* position of the running program
    stack,     \* return labels of the pending calls
    numbers,   \* parameter of sortAndFindMedian (a reference)
    arr,       \* local of sortAndFindMedian (a reference, "null" when unbound)
    ref,       \* parameter of sort / insertion_sort (a reference)
    i, j, key, \* locals of insertion_sort
    ret,       \* value returned by the last call: << >> (None) or <<value>>
    exc,       \* message of the exception in flight, "none" when there is none
    \* ---- a library client calling sort / sortAndFindMedian on its list
    op,        \* the function the client called last
    snap,      \* contents of the client's list when it made that call
    sortIn,    \* contents of the list insertion_sort was entered with
    log,       \* the completed calls
    \* ---- median.py main()
    argv,      \* sys.argv[1:], each argument a sequence of characters
    stdin,     \* << >> at end of input, else <<line>>
    stdout,    \* what was printed on standard output
    median,    \* local of main: << >> while unbound, else <<value>>
    exit,      \* exit status of the process, -1 while it runs
    \* ---- weather_cli.py
    items,     \* Favourites._items
    city,      \* local of search_flow / add_flow: the stripped text typed
    fetched,   \* the fetch_weather call of the running flow: <<city, outcome>>
    msg        \* the text printed last (or the error an API call raised)

engineVars == <<heap, pc, stack, numbers, arr, ref, i, j, key, ret, exc, sortIn>>
clientVars == <<op, snap, log>>
cliVars    == <<argv, stdin, stdout, median, exit>>
favVars    == <<items, city, fetched, msg>>
vars       == <<engineVars, clientVars, cliVars, favVars>>

---------------------------------------------------------------------------
\* Bounds of the model
MaxLen   == 4      \* longest list the library client sorts
MaxVal   == 2      \* list elements are drawn from 0..MaxVal
MaxCalls == 2      \* calls the library client makes
MaxArgs  == 2      \* command-line arguments given to median.py
MaxArgLen == 1     \* characters of one command-line argument
MaxLine  == 3      \* characters of the line typed at the prompt
MaxName  == 3      \* characters of a city name typed at a prompt

Values == 0..MaxVal

\* the inputs of the usage examples (module docstring of median.py)
Examples == {<<3, 1, 4, 1, 5>>, <<3, 1, 4, 1, 5, 9>>, <<7>>, <<2, 2, 2, 2>>}

RECURSIVE SeqsUpTo(_, _)
SeqsUpTo(S, n) ==
    IF n = 0 THEN {<< >>}
    ELSE LET shorter == SeqsUpTo(S, n - 1)
         IN  shorter \cup {Append(s, x) : s \in {t \in shorter : Len(t) = n - 1}, x \in S}

---------------------------------------------------------------------------
\* Python list access with 0-based indices
At(l, k)     == l[k + 1]
Put(l, k, v) == [l EXCEPT ![k + 1] = v]

\* faulty comparisons: descending order, and shifting equal elements too
Less(a, b) == a < b
GreaterEq(a, b) == a >= b

\* numbers[j] > key, the comparison of the inner loop
Greater(a, b) == a > b

\* return to the caller: pop the return label
Return == /\ pc' = Head(stack)
          /\ stack' = Tail(stack)

---------------------------------------------------------------------------
\* def sort(numbers): insertion_sort(numbers)
sort ==
    /\ pc = "sort"
    /\ pc' = "for"
    /\ i' = 1
    /\ sortIn' = heap[ref]
    /\ UNCHANGED <<heap, stack, numbers, arr, ref, j, key, ret, exc>>
    /\ UNCHANGED <<clientVars, cliVars, favVars>>

\* for i in range(1, len(numbers)): key = numbers[i]; j = i - 1
\* and, when the range is exhausted, the return of insertion_sort and sort
insertion_sort_for ==
    /\ pc = "for"
    /\ IF i < Len(heap[ref])
       THEN /\ key' = At(heap[ref], i)
            /\ j' = i - 1
            /\ pc' = "while"
            /\ UNCHANGED <<stack, ret>>
       ELSE /\ Return
            /\ ret' = << >>
            /\ UNCHANGED <<j, key>>
    /\ UNCHANGED <<heap, numbers, arr, ref, i, exc, sortIn>>
    /\ UNCHANGED <<clientVars, cliVars, favVars>>

\* while j >= 0 and numbers[j] > key: numbers[j + 1] = numbers[j]; j -= 1
insertion_sort_while ==
    /\ pc = "while"
    /\ IF j >= 0 /\ Greater(At(heap[ref], j), key)
       THEN /\ heap' = [heap EXCEPT ![ref] = Put(@, j + 1, At(@, j))]
            /\ j' = j - 1
            /\ pc' = "while"
       ELSE /\ pc' = "place"
            /\ UNCHANGED <<heap, j>>
    /\ UNCHANGED <<stack, numbers, arr, ref, i, key, ret, exc, sortIn>>
    /\ UNCHANGED <<clientVars, cliVars, favVars>>

\* faulty variant: the key is written back to position i instead of the gap
insertion_sort_place_at_i ==
    /\ pc = "place"
    /\ heap' = [heap EXCEPT ![ref] = Put(@, i, key)]
    /\ i' = i + 1
    /\ pc' = "for"
    /\ UNCHANGED <<stack, numbers, arr, ref, j, key, ret, exc, sortIn>>
    /\ UNCHANGED <<clientVars, cliVars, favVars>>

\* numbers[j + 1] = key, then the next i of the range
insertion_sort_place ==
    /\ pc = "place"
    /\ heap' = [heap EXCEPT ![ref] = Put(@, j + 1, key)]
    /\ i' = i + 1
    /\ pc' = "for"
    /\ UNCHANGED <<stack, numbers, arr, ref, j, key, ret, exc, sortIn>>
    /\ UNCHANGED <<clientVars, cliVars, favVars>>

\* (a + b) / 2 and a, as exact rationals
Mean(a, b) == [num |-> a + b, den |-> 2]
Whole(a)   == [num |-> a, den |-> 1]

\* faulty variant: arr = numbers, the caller's list is sorted instead of a copy
sortAndFindMedian_entry_alias ==
    /\ pc = "median"
    /\ IF heap[numbers] = << >>
       THEN /\ exc' = "Input list is empty"
            /\ Return
            /\ UNCHANGED <<arr, ref>>
       ELSE /\ arr' = numbers
            /\ ref' = numbers
            /\ pc' = "sort"
            /\ stack' = <<"select">> \o stack
            /\ exc' = exc
    /\ UNCHANGED <<heap, numbers, i, j, key, ret, sortIn>>
    /\ UNCHANGED <<clientVars, cliVars, favVars>>

\* faulty variant: the emptiness test comes after the copy and the sort
sortAndFindMedian_entry_late_check ==
    /\ pc = "median"
    /\ heap' = [heap EXCEPT !["L1"] = heap[numbers]]
    /\ arr' = "L1"
    /\ ref' = "L1"
    /\ pc' = "sort"
    /\ stack' = <<(IF heap[numbers] = << >> THEN "raise" ELSE "select")>> \o stack
    /\ UNCHANGED <<numbers, i, j, key, ret, exc, sortIn>>
    /\ UNCHANGED <<clientVars, cliVars, favVars>>

\* if not numbers: raise ValueError(...); arr = list(numbers); sort(arr)
sortAndFindMedian_entry ==
    /\ pc = "median"
    /\ IF heap[numbers] = << >>
       THEN /\ exc' = "Input list is empty"
            /\ Return
            /\ UNCHANGED <<heap, arr, ref>>
       ELSE /\ heap' = [heap EXCEPT !["L1"] = heap[numbers]]
            /\ arr' = "L1"
            /\ ref' = "L1"
            /\ pc' = "sort"
            /\ stack' = <<"select">> \o stack
            /\ exc' = exc
    /\ UNCHANGED <<numbers, i, j, key, ret, sortIn>>
    /\ UNCHANGED <<clientVars, cliVars, favVars>>

\* faulty variant: the upper middle element also when n is even
sortAndFindMedian_select_upper ==
    /\ pc = "select"
    /\ ret' = <<Whole(At(heap[arr], Len(heap[arr]) \div 2))>>
    /\ arr' = "null"
    /\ Return
    /\ UNCHANGED <<heap, numbers, ref, i, j, key, exc, sortIn>>
    /\ UNCHANGED <<clientVars, cliVars, favVars>>

\* n = len(arr); the middle element, or the mean of the two middle elements
sortAndFindMedian_select ==
    /\ pc = "select"
    /\ LET a == heap[arr]
           n == Len(a)
       IN  ret' = IF n % 2 = 0
                  THEN <<Mean(At(a, (n \div 2) - 1), At(a, n \div 2))>>
                  ELSE <<Whole(At(a, n \div 2))>>
    /\ arr' = "null"
    /\ Return
    /\ UNCHANGED <<heap, numbers, ref, i, j, key, exc, sortIn>>
    /\ UNCHANGED <<clientVars, cliVars, favVars>>

engine ==
    \/ sort
    \/ insertion_sort_for
    \/ insertion_sort_while
    \/ insertion_sort_place
    \/ sortAndFindMedian_entry
    \/ sortAndFindMedian_select

---------------------------------------------------------------------------
\* A client of the library: it owns the list L0 and calls sort(L0) or
\* sortAndFindMedian(L0), one call after the other.
client_call_sort ==
    /\ pc = "idle"
    /\ Len(log) < MaxCalls
    /\ op' = "sort"
    /\ snap' = heap["L0"]
    /\ ref' = "L0"
    /\ pc' = "sort"
    /\ stack' = <<"client">>
    /\ ret' = << >>
    /\ exc' = "none"
    /\ UNCHANGED <<heap, numbers, arr, i, j, key, sortIn, log, cliVars, favVars>>

client_call_median ==
    /\ pc = "idle"
    /\ Len(log) < MaxCalls
    /\ op' = "median"
    /\ snap' = heap["L0"]
    /\ numbers' = "L0"
    /\ pc' = "median"
    /\ stack' = <<"client">>
    /\ ret' = << >>
    /\ exc' = "none"
    /\ UNCHANGED <<heap, arr, ref, i, j, key, sortIn, log, cliVars, favVars>>

client_return ==
    /\ pc = "client"
    /\ log' = Append(log, [op |-> op, before |-> snap, after |-> heap["L0"],
                           value |-> ret, error |-> exc])
    /\ pc' = "idle"
    /\ UNCHANGED <<heap, stack, numbers, arr, ref, i, j, key, ret, exc, sortIn>>
    /\ UNCHANGED <<op, snap, cliVars, favVars>>

InitEngine ==
    /\ stack = << >>
    /\ numbers = "null"
    /\ arr = "null"
    /\ ref = "null"
    /\ i = 0
    /\ j = 0
    /\ key = 0
    /\ ret = << >>
    /\ exc = "none"
    /\ sortIn = << >>
    /\ op = "none"
    /\ snap = << >>
    /\ log = << >>
    /\ items = << >>
    /\ city = << >>
    /\ fetched = << >>
    /\ msg = ""

InitCliOff ==
    /\ argv = << >>
    /\ stdin = << >>
    /\ stdout = << >>
    /\ median = << >>
    /\ exit = -1

Init ==
    /\ InitEngine
    /\ InitCliOff
    /\ pc = "idle"
    /\ \E s \in SeqsUpTo(Values, MaxLen) \cup Examples :
          heap = [L0 |-> s, L1 |-> << >>, L2 |-> << >>]

Next ==
    \/ engine
    \/ client_call_sort
    \/ client_call_median
    \/ client_return

Spec == Init /\ [][Next]_vars


---------------------------------------------------------------------------
\* median.py as a program: parse_numbers and main.
\* A str is a sequence of characters over a small alphabet: two digits, the
\* two separators and a letter.
Digits == {"1", "2"}
Chars  == Digits \cup {",", " ", "x"}

DigitVal(c) == IF c = "1" THEN 1 ELSE 2

\* token.replace(",", " ")
Replace(str) == [k \in DOMAIN str |-> IF str[k] = "," THEN " " ELSE str[k]]

\* str.split(): the maximal runs of non-blank characters, in order
RECURSIVE SplitFrom(_, _, _)
SplitFrom(str, cur, acc) ==
    IF str = << >>
    THEN IF cur = << >> THEN acc ELSE Append(acc, cur)
    ELSE IF Head(str) = " "
         THEN SplitFrom(Tail(str), << >>, IF cur = << >> THEN acc ELSE Append(acc, cur))
         ELSE SplitFrom(Tail(str), Append(cur, Head(str)), acc)

Split(str) == SplitFrom(str, << >>, << >>)

\* float(x): defined on the tokens made of digits only (over Chars)
IsNumeric(tok) == tok # << >> /\ \A k \in DOMAIN tok : tok[k] \in Digits

RECURSIVE Float(_)
Float(tok) ==
    IF tok = << >> THEN 0
    ELSE 10 * Float(SubSeq(tok, 1, Len(tok) - 1)) + DigitVal(tok[Len(tok)])

\* for token in args: tokens.extend(token.replace(",", " ").split())
RECURSIVE Tokens(_)
Tokens(args) ==
    IF args = << >> THEN << >>
    ELSE Split(Replace(Head(args))) \o Tokens(Tail(args))

\* def parse_numbers(args): the list of floats, or the ValueError raised
parse_numbers(args) ==
    LET tokens == Tokens(args)
    IN  IF tokens = << >>
        THEN [raised |-> "No numbers provided", value |-> << >>]
        ELSE IF \A k \in DOMAIN tokens : IsNumeric(tokens[k])
             THEN [raised |-> "none",
                   value |-> [k \in DOMAIN tokens |-> Float(tokens[k])]]
             ELSE [raised |-> "All inputs must be numeric", value |-> << >>]

Line(tag, text, list, val) == [tag |-> tag, text |-> text, list |-> list, val |-> val]

\* nums = parse_numbers(...) in main: an exception of parse_numbers is not
\* caught, the interpreter ends the process with status 1 and prints nothing
\* on standard output; otherwise main goes on to call sortAndFindMedian(nums)
MainParsed(parsed, out) ==
    IF parsed.raised # "none"
    THEN /\ exc' = parsed.raised
         /\ exit' = 1
         /\ pc' = "exited"
         /\ stdout' = out
         /\ UNCHANGED <<heap, stack, numbers>>
    ELSE /\ heap' = [heap EXCEPT !["L0"] = parsed.value]
         /\ numbers' = "L0"
         /\ pc' = "median"
         /\ stack' = <<"main_try">>
         /\ stdout' = out
         /\ UNCHANGED <<exc, exit>>

\* if len(sys.argv) > 1: nums = parse_numbers(sys.argv[1:])
main_args ==
    /\ pc = "main"
    /\ Len(argv) > 0
    /\ MainParsed(parse_numbers(argv), stdout)
    /\ UNCHANGED <<arr, ref, i, j, key, ret, sortIn, argv, stdin, median>>
    /\ UNCHANGED <<clientVars, favVars>>

\* faulty variant: end of input at the prompt ends main without an exit status
main_input_eof_returns ==
    /\ pc = "main"
    /\ Len(argv) = 0
    /\ LET prompted == Append(stdout, Line("prompt", "Enter numbers", << >>, << >>))
       IN  IF stdin = << >>
           THEN /\ stdout' = Append(prompted, Line("text", "No input provided.", << >>, << >>))
                /\ exit' = 0
                /\ pc' = "exited"
                /\ UNCHANGED <<heap, stack, numbers, exc>>
           ELSE MainParsed(parse_numbers(<<stdin[1]>>), prompted)
    /\ UNCHANGED <<arr, ref, i, j, key, ret, sortIn, argv, stdin, median>>
    /\ UNCHANGED <<clientVars, favVars>>

\* else: raw = input(...), EOFError -> "No input provided.", sys.exit(1);
\* nums = parse_numbers([raw])
main_input ==
    /\ pc = "main"
    /\ Len(argv) = 0
    /\ LET prompted == Append(stdout, Line("prompt", "Enter numbers", << >>, << >>))
       IN  IF stdin = << >>
           THEN /\ stdout' = Append(prompted, Line("text", "No input provided.", << >>, << >>))
                /\ exit' = 1
                /\ pc' = "exited"
                /\ UNCHANGED <<heap, stack, numbers, exc>>
           ELSE MainParsed(parse_numbers(<<stdin[1]>>), prompted)
    /\ UNCHANGED <<arr, ref, i, j, key, ret, sortIn, argv, stdin, median>>
    /\ UNCHANGED <<clientVars, favVars>>

\* try: median = sortAndFindMedian(nums) / except: print Error, sys.exit(1);
\* then arr_show = list(nums); sort(arr_show)
main_try ==
    /\ pc = "main_try"
    /\ IF exc # "none"
       THEN /\ stdout' = Append(stdout, Line("Error", exc, << >>, << >>))
            /\ exit' = 1
            /\ pc' = "exited"
            /\ UNCHANGED <<heap, stack, ref, median>>
       ELSE /\ median' = ret
            /\ heap' = [heap EXCEPT !["L2"] = heap["L0"]]
            /\ ref' = "L2"
            /\ pc' = "sort"
            /\ stack' = <<"main_print">>
            /\ UNCHANGED <<stdout, exit>>
    /\ UNCHANGED <<numbers, arr, i, j, key, ret, exc, sortIn, argv, stdin>>
    /\ UNCHANGED <<clientVars, favVars>>

\* print(f"Sorted: {arr_show}"); print(f"Median: {median}"); main returns
main_print ==
    /\ pc = "main_print"
    /\ stdout' = stdout \o <<Line("Sorted", "", heap["L2"], << >>),
                             Line("Median", "", << >>, median)>>
    /\ exit' = 0
    /\ pc' = "exited"
    /\ UNCHANGED <<heap, stack, numbers, arr, ref, i, j, key, ret, exc, sortIn>>
    /\ UNCHANGED <<argv, stdin, median>>
    /\ UNCHANGED <<clientVars, favVars>>

Strings(n) == SeqsUpTo(Chars, n)

InitCli ==
    /\ InitEngine
    /\ pc = "main"
    /\ heap = [L0 |-> << >>, L1 |-> << >>, L2 |-> << >>]
    /\ stdout = << >>
    /\ median = << >>
    /\ exit = -1
    /\ \/ /\ argv \in SeqsUpTo(Strings(MaxArgLen), MaxArgs) \ {<< >>}
          /\ stdin = << >>
       \/ /\ argv = << >>
          /\ stdin \in {<< >>} \cup {<<l>> : l \in Strings(MaxLine)}

NextCli ==
    \/ engine
    \/ main_args
    \/ main_input
    \/ main_try
    \/ main_print

CliSpec == InitCli /\ [][NextCli]_vars

---------------------------------------------------------------------------
\* weather_cli.py: the favourites list and the menu flows.
\* A city name is a str over a letter and the blank.
Capacity == 3

NameChars == {"a", " "}
RawNames  == SeqsUpTo(NameChars, MaxName)

\* str.strip(): without the leading and the trailing blanks
RECURSIVE LStrip(_)
LStrip(str) ==
    IF str # << >> /\ Head(str) = " " THEN LStrip(Tail(str)) ELSE str

RECURSIVE RStrip(_)
RStrip(str) ==
    IF str # << >> /\ str[Len(str)] = " "
    THEN RStrip(SubSeq(str, 1, Len(str) - 1))
    ELSE str

Strip(str) == RStrip(LStrip(str))

\* str.lower()
Lower(str) == [k \in DOMAIN str |-> IF str[k] = "Y" THEN "y" ELSE str[k]]

\* x in list
In(x, l) == \E k \in DOMAIN l : l[k] = x

\* list.remove(x): without the first occurrence of x
RemoveFirst(l, x) ==
    LET k == CHOOSE n \in DOMAIN l : l[n] = x /\ \A m \in 1..(n - 1) : l[m] # x
    IN  SubSeq(l, 1, k - 1) \o SubSeq(l, k + 1, Len(l))

\* faulty variant: the capacity test lets one more city in
Favourites_add_off_by_one(its, name) ==
    LET city_norm == Strip(name)
    IN  IF city_norm = << >>
        THEN [items |-> its, raised |-> "City name cannot be empty"]
        ELSE IF In(city_norm, its)
        THEN [items |-> its, raised |-> "Already in favourites"]
        ELSE IF Len(its) > Capacity
        THEN [items |-> its, raised |-> "Favourites is full"]
        ELSE [items |-> Append(its, city_norm), raised |-> "none"]

\* faulty variant: the duplicate test looks for the text as typed
Favourites_add_raw_lookup(its, name) ==
    LET city_norm == Strip(name)
    IN  IF city_norm = << >>
        THEN [items |-> its, raised |-> "City name cannot be empty"]
        ELSE IF In(name, its)
        THEN [items |-> its, raised |-> "Already in favourites"]
        ELSE IF Len(its) >= Capacity
        THEN [items |-> its, raised |-> "Favourites is full"]
        ELSE [items |-> Append(its, city_norm), raised |-> "none"]

\* Favourites.add(city): the new list and the ValueError raised, if any
Favourites_add(its, name) ==
    LET city_norm == Strip(name)
    IN  IF city_norm = << >>
        THEN [items |-> its, raised |-> "City name cannot be empty"]
        ELSE IF In(city_norm, its)
        THEN [items |-> its, raised |-> "Already in favourites"]
        ELSE IF Len(its) >= Capacity
        THEN [items |-> its, raised |-> "Favourites is full"]
        ELSE [items |-> Append(its, city_norm), raised |-> "none"]

\* Favourites.remove(city)
Favourites_remove(its, name) ==
    LET city_norm == Strip(name)
    IN  IF In(city_norm, its)
        THEN [items |-> RemoveFirst(its, city_norm), raised |-> "none"]
        ELSE [items |-> its, raised |-> "Not in favourites"]

\* WeatherClient.fetch_weather: the record of the city, or one of the errors
\* (requests.RequestException, status 404, another status that is not ok,
\* a body resp.json() cannot decode)
Outcomes == {"ok", "City not found", "API error", "Network error", "Invalid JSON"}

medianIdle ==
    UNCHANGED <<heap, stack, numbers, arr, ref, j, key, ret, exc, sortIn,
                snap, log, argv, stdin, stdout, median>>

\* menu(): load_env_from_file(); api_key = get_api_key(), or print the
\* RuntimeError and sys.exit(1); client and the empty Favourites(capacity=3)
menu ==
    /\ pc = "start"
    /\ \E key_set \in BOOLEAN :
          IF key_set
          THEN pc' = "loop" /\ msg' = msg /\ exit' = exit
          ELSE pc' = "exited" /\ msg' = "OPENWEATHER_API_KEY is not set" /\ exit' = 1
    /\ items' = << >>
    /\ UNCHANGED <<city, fetched, i, op>>
    /\ medianIdle

\* the texts typed at "Choose an option: "
Choices == {<<"1">>, <<"2">>, <<" ", "2">>, <<"3">>, <<"4">>, <<"4", " ">>,
            <<"0">>, <<"9">>, << >>}

\* while True: print(menu); choice = prompt(...).strip(); dispatch
menu_choice ==
    /\ pc = "menu"
    /\ \E typed \in Choices :
          LET choice == Strip(typed)
          IN  IF choice = <<"1">> THEN pc' = "search_flow" /\ msg' = msg
              ELSE IF choice = <<"2">> THEN pc' = "add_flow" /\ msg' = msg
              ELSE IF choice = <<"3">> THEN pc' = "list_flow" /\ msg' = msg
              ELSE IF choice = <<"4">> THEN pc' = "update_flow" /\ msg' = msg
              ELSE IF choice = <<"0">> THEN pc' = "exited" /\ msg' = "Goodbye!"
              ELSE pc' = "loop" /\ msg' = "Invalid choice. Try again."
    /\ exit' = IF pc' = "exited" THEN 0 ELSE exit
    /\ UNCHANGED <<items, city, fetched, i, op>>
    /\ medianIdle

\* a flow has returned: its locals are gone, the menu is printed again
menu_loop ==
    /\ pc = "loop"
    /\ pc' = "menu"
    /\ msg' = "OpenWeather CLI"
    /\ city' = << >>
    /\ fetched' = << >>
    /\ i' = 0
    /\ UNCHANGED items
    /\ UNCHANGED <<op, exit>>
    /\ medianIdle

\* search_flow: city = prompt(...).strip(); if not city: ... return
search_flow ==
    /\ pc = "search_flow"
    /\ \E typed \in RawNames :
          /\ city' = Strip(typed)
          /\ IF Strip(typed) = << >>
             THEN pc' = "loop" /\ msg' = "No city entered."
             ELSE pc' = "search_fetch" /\ msg' = msg
    /\ UNCHANGED <<items, fetched, i>>
    /\ UNCHANGED <<op, exit>>
    /\ medianIdle

\* data = client.fetch_weather(city); print(format_weather(data)) / Error
search_fetch ==
    /\ pc = "search_fetch"
    /\ \E outcome \in Outcomes :
          /\ fetched' = <<city, outcome>>
          /\ msg' = IF outcome = "ok" THEN "City:" ELSE outcome
    /\ pc' = "loop"
    /\ UNCHANGED <<items, city, i>>
    /\ UNCHANGED <<op, exit>>
    /\ medianIdle

\* add_flow: city = prompt(...).strip(); if not city: ... return
add_flow ==
    /\ pc = "add_flow"
    /\ \E typed \in RawNames :
          /\ city' = Strip(typed)
          /\ IF Strip(typed) = << >>
             THEN pc' = "loop" /\ msg' = "No city entered."
             ELSE pc' = "add_fetch" /\ msg' = msg
    /\ UNCHANGED <<items, fetched, i>>
    /\ UNCHANGED <<op, exit>>
    /\ medianIdle

\* faulty variant: the city is stored whatever the fetch gave
add_flow_fetch_unchecked ==
    /\ pc = "add_fetch"
    /\ \E outcome \in Outcomes :
          /\ fetched' = <<city, outcome>>
          /\ pc' = "add_store"
          /\ msg' = msg
    /\ UNCHANGED <<items, city, i>>
    /\ UNCHANGED <<op, exit>>
    /\ medianIdle

\* try: client.fetch_weather(city)  -- validate city exists
add_flow_fetch ==
    /\ pc = "add_fetch"
    /\ \E outcome \in Outcomes :
          /\ fetched' = <<city, outcome>>
          /\ IF outcome = "ok"
             THEN pc' = "add_store" /\ msg' = msg
             ELSE pc' = "loop" /\ msg' = outcome
    /\ UNCHANGED <<items, city, i>>
    /\ UNCHANGED <<op, exit>>
    /\ medianIdle

\* fav.add(city); print("Added to favourites") / except: print Error
add_flow_store ==
    /\ pc = "add_store"
    /\ LET r == Favourites_add(items, city)
       IN  /\ items' = r.items
           /\ msg' = IF r.raised = "none" THEN "Added to favourites" ELSE r.raised
    /\ pc' = "loop"
    /\ UNCHANGED <<city, fetched, i>>
    /\ UNCHANGED <<op, exit>>
    /\ medianIdle

\* list_flow: items = fav.list(); if not items: ... return; the header
list_flow ==
    /\ pc = "list_flow"
    /\ IF items = << >>
       THEN pc' = "loop" /\ msg' = "No favourites yet." /\ i' = i
       ELSE pc' = "list_fetch" /\ msg' = "Favourites" /\ i' = 1
    /\ UNCHANGED <<items, city, fetched>>
    /\ UNCHANGED <<op, exit>>
    /\ medianIdle

\* for i, city in enumerate(items, start=1): fetch and print, or print Error
list_flow_fetch ==
    /\ pc = "list_fetch"
    /\ IF i <= Len(items)
       THEN /\ \E outcome \in Outcomes :
                  /\ fetched' = <<items[i], outcome>>
                  /\ msg' = IF outcome = "ok" THEN "City:" ELSE outcome
            /\ city' = items[i]
            /\ i' = i + 1
            /\ pc' = "list_fetch"
       ELSE /\ msg' = ""
            /\ pc' = "loop"
            /\ UNCHANGED <<city, fetched, i>>
    /\ UNCHANGED items
    /\ UNCHANGED <<op, exit>>
    /\ medianIdle

\* update_flow up to fav.remove(sel): nothing stored, cancelled, removed or
\* the error of remove
update_flow ==
    /\ pc = "update_flow"
    /\ IF items = << >>
       THEN /\ pc' = "loop"
            /\ msg' = "No favourites to update. Add some first."
            /\ UNCHANGED items
       ELSE \E typed \in RawNames :
               LET sel == Strip(typed)
                   r   == Favourites_remove(items, sel)
               IN  IF sel = << >>
                   THEN pc' = "loop" /\ msg' = "Cancelled." /\ UNCHANGED items
                   ELSE IF r.raised # "none"
                   THEN pc' = "loop" /\ msg' = r.raised /\ UNCHANGED items
                   ELSE pc' = "update_more" /\ msg' = "Removed" /\ items' = r.items
    /\ UNCHANGED <<city, fetched, i>>
    /\ UNCHANGED <<op, exit>>
    /\ medianIdle

\* if len(fav.list()) < fav.capacity: add_more = prompt(...); "y" -> add_flow
update_flow_more ==
    /\ pc = "update_more"
    /\ IF Len(items) < Capacity
       THEN \E add_more \in {<<"y">>, <<"Y", " ">>, <<"n">>, << >>} :
               pc' = IF Lower(Strip(add_more)) = <<"y">> THEN "add_flow" ELSE "loop"
       ELSE pc' = "loop"
    /\ UNCHANGED <<items, city, fetched, msg, i>>
    /\ UNCHANGED <<op, exit>>
    /\ medianIdle

InitMenu ==
    /\ InitEngine
    /\ InitCliOff
    /\ heap = [L0 |-> << >>, L1 |-> << >>, L2 |-> << >>]
    /\ pc = "start"

NextMenu ==
    \/ menu
    \/ menu_loop
    \/ menu_choice
    \/ search_flow
    \/ search_fetch
    \/ add_flow
    \/ add_flow_fetch
    \/ add_flow_store
    \/ list_flow
    \/ list_flow_fetch
    \/ update_flow
    \/ update_flow_more

MenuSpec == InitMenu /\ [][NextMenu]_vars

\* A program that uses the Favourites class directly: any sequence of
\* add, remove and list calls with any text.
fav_add ==
    /\ pc = "fav"
    /\ \E typed \in RawNames :
          LET r == Favourites_add(items, typed)
          IN  /\ items' = r.items
              /\ msg' = r.raised
              /\ city' = typed
    /\ op' = "add"
    /\ UNCHANGED <<pc, fetched, i, exit>>
    /\ medianIdle

fav_remove ==
    /\ pc = "fav"
    /\ \E typed \in RawNames :
          LET r == Favourites_remove(items, typed)
          IN  /\ items' = r.items
              /\ msg' = r.raised
              /\ city' = typed
    /\ op' = "remove"
    /\ UNCHANGED <<pc, fetched, i, exit>>
    /\ medianIdle

InitFav ==
    /\ InitEngine
    /\ InitCliOff
    /\ heap = [L0 |-> << >>, L1 |-> << >>, L2 |-> << >>]
    /\ pc = "fav"

NextFav == fav_add \/ fav_remove

FavSpec == InitFav /\ [][NextFav]_vars

---------------------------------------------------------------------------
\* Vocabulary of the properties (independent of the sorting code)
Range(s) == {s[k] : k \in DOMAIN s}

IsSorted(s) == \A k \in 1..(Len(s) - 1) : s[k] <= s[k + 1]

Count(s, v) == Cardinality({k \in DOMAIN s : s[k] = v})

IsPermutation(s, t) ==
    /\ Len(s) = Len(t)
    /\ \A v \in Range(s) \cup Range(t) : Count(s, v) = Count(t, v)

\* the element at 0-based rank k of the ascending order of s, by counting
Kth(s, k) ==
    CHOOSE v \in Range(s) :
        /\ Cardinality({x \in DOMAIN s : s[x] < v}) <= k
        /\ k < Cardinality({x \in DOMAIN s : s[x] <= v})

\* the rational r equals n / d
RatEq(r, n, d) == r.num * d = n * r.den

\* a call of sort has just returned to its caller
SortReturned == pc = "select" \/ (pc = "client" /\ op = "sort")

HasDuplicate(s) == \E a, b \in DOMAIN s : a # b /\ s[a] = s[b]

---------------------------------------------------------------------------
\* C1: when sort(S) has returned, the list is non-decreasing and is a
\* permutation of the list sort was entered with (same length, same
\* multiset of values), for every input including the empty and the
\* one-element list and lists with duplicates.
C1_SortedPermutation ==
    /\ SortReturned =>
          /\ IsSorted(heap[ref])
          /\ IsPermutation(heap[ref], sortIn)
    /\ \A k \in DOMAIN log :
          log[k].op = "sort" =>
             /\ IsSorted(log[k].after)
             /\ IsPermutation(log[k].after, log[k].before)
             /\ log[k].error = "none"

C1_Witness ==
    /\ pc = "client" /\ op = "sort"
    /\ Len(sortIn) >= 3
    /\ HasDuplicate(sortIn)
    /\ ~IsSorted(sortIn)
    /\ sortIn = snap

\* C2: for a non-empty S of length n, sortAndFindMedian(S) returns the
\* element of rank n div 2 of the ascending order of S when n is odd, and
\* the mean of the elements of ranks n/2 - 1 and n/2 when n is even; the
\* four examples give 3, 3.5, 7 and 2.
MedianOf(s, v) ==
    LET n == Len(s)
    IN  /\ Len(v) = 1
        /\ IF n % 2 = 1
           THEN RatEq(v[1], Kth(s, n \div 2), 1)
           ELSE RatEq(v[1], Kth(s, (n \div 2) - 1) + Kth(s, n \div 2), 2)

C2_MedianValue ==
    \A k \in DOMAIN log :
        (log[k].op = "median" /\ log[k].before # << >>) =>
           /\ log[k].error = "none"
           /\ MedianOf(log[k].before, log[k].value)
           /\ log[k].before = <<3, 1, 4, 1, 5>> => RatEq(log[k].value[1], 3, 1)
           /\ log[k].before = <<3, 1, 4, 1, 5, 9>> => RatEq(log[k].value[1], 7, 2)
           /\ log[k].before = <<7>> => RatEq(log[k].value[1], 7, 1)
           /\ log[k].before = <<2, 2, 2, 2>> => RatEq(log[k].value[1], 2, 1)

C2_Witness ==
    \E k \in DOMAIN log :
        /\ log[k].op = "median"
        /\ log[k].before = <<3, 1, 4, 1, 5, 9>>
        /\ log[k].value = <<[num |-> 7, den |-> 2]>>

\* C3: sortAndFindMedian never modifies the caller's list (same elements in
\* the same order during and after the call), so two calls in a row return
\* the same value; sort works on the caller's list itself, the median on
\* another object.
C3_CallerUnmodified ==
    /\ op = "median" => heap["L0"] = snap
    /\ \A k \in DOMAIN log : log[k].op = "median" => log[k].after = log[k].before
    /\ \A k \in 1..(Len(log) - 1) :
          (log[k].op = "median" /\ log[k + 1].op = "median") =>
             /\ log[k + 1].value = log[k].value
             /\ log[k + 1].error = log[k].error
    /\ pc \in {"for", "while", "place"} =>
          ref = (IF op = "sort" THEN "L0" ELSE "L1")

C3_Witness ==
    /\ Len(log) = 2
    /\ log[1].op = "median" /\ log[2].op = "median"
    /\ ~IsSorted(log[2].before)
    /\ Len(log[2].value) = 1

\* C4: on an empty list sortAndFindMedian raises the empty-input error
\* before it copies or sorts anything and returns no value; sort on an
\* empty list raises nothing and leaves the list empty.
C4_EmptyInput ==
    /\ (op = "median" /\ snap = << >>) =>
          /\ pc \in {"median", "client", "idle"}
          /\ arr = "null"
          /\ heap["L1"] = << >>
          /\ ret = << >>
          /\ pc # "median" => exc = "Input list is empty"
    /\ (op = "sort" /\ snap = << >>) =>
          /\ heap["L0"] = << >>
          /\ exc = "none"
    /\ \A k \in DOMAIN log :
          /\ log[k].op = "median" =>
                (log[k].error = "Input list is empty" <=> log[k].before = << >>)
          /\ log[k].op = "median" /\ log[k].before = << >> => log[k].value = << >>
          /\ log[k].op = "sort" /\ log[k].before = << >> =>
                log[k].after = << >> /\ log[k].error = "none"

C4_Witness ==
    /\ Len(log) = 2
    /\ log[1].op = "median" /\ log[1].error = "Input list is empty"
    /\ log[2].op = "sort" /\ log[2].after = << >>

\* C5: sorting a list that is already non-decreasing leaves every position
\* unchanged at every step, so a second sort returns the list the first
\* one produced.
C5_Idempotent ==
    /\ (op = "sort" /\ IsSorted(snap)) => heap["L0"] = snap
    /\ \A k \in 1..(Len(log) - 1) :
          (log[k].op = "sort" /\ log[k + 1].op = "sort") =>
             log[k + 1].after = log[k].after

C5_Witness ==
    /\ Len(log) = 2
    /\ log[1].op = "sort" /\ log[2].op = "sort"
    /\ log[1].before # log[1].after
    /\ Len(log[2].after) >= 3

\* C8: at the start of outer iteration i (1 <= i <= n-1) the prefix 0..i-1
\* is non-decreasing and a permutation of the original prefix and the
\* suffix i..n-1 is untouched; in the inner loop the positions right of the
\* gap hold elements greater than the key, only an element strictly greater
\* than the key is shifted one position right, and the key goes in the gap.
StepInvariant ==
    /\ (pc = "for" /\ i <= Len(heap[ref])) =>
          LET l == heap[ref]
              n == Len(l)
          IN  /\ 1 <= i
              /\ n = Len(sortIn)
              /\ IsSorted(SubSeq(l, 1, i))
              /\ IsPermutation(SubSeq(l, 1, i), SubSeq(sortIn, 1, i))
              /\ SubSeq(l, i + 1, n) = SubSeq(sortIn, i + 1, n)
    /\ pc \in {"while", "place"} =>
          LET l == heap[ref]
          IN  /\ -1 <= j /\ j < i /\ i < Len(l)
              /\ key = At(sortIn, i)
              /\ \A k \in (j + 2)..i : At(l, k) > key
              /\ SubSeq(l, i + 2, Len(l)) = SubSeq(sortIn, i + 2, Len(l))
              /\ pc = "place" => (j >= 0 => At(l, j) <= key)

StepWrites ==
    (pc \in {"while", "place"} /\ heap' # heap) =>
        \/ /\ pc = "while"
           /\ j >= 0
           /\ At(heap[ref], j) > key
           /\ heap' = [heap EXCEPT ![ref] = Put(heap[ref], j + 1, At(heap[ref], j))]
           /\ j' = j - 1
        \/ /\ pc = "place"
           /\ heap' = [heap EXCEPT ![ref] = Put(heap[ref], j + 1, key)]

C8_StepInvariant == [] StepInvariant /\ [][StepWrites]_vars

C8_Witness ==
    /\ pc = "for"
    /\ i = 2 /\ i < Len(heap[ref])
    /\ heap[ref] # sortIn
    /\ HasDuplicate(sortIn)

\* C7: the median program ends with a non-zero status exactly when an
\* error occurred (no token given, a token that is not a number, end of
\* input at the prompt, an empty-input error of the median) and with status
\* zero otherwise; the sorted list and the median are on standard output in
\* exactly the runs that end with status zero.
InputChars ==
    IF Len(argv) > 0
    THEN UNION {Range(argv[k]) : k \in DOMAIN argv}
    ELSE IF stdin = << >> THEN {} ELSE Range(stdin[1])

EndOfInput == Len(argv) = 0 /\ stdin = << >>
NoToken    == InputChars \subseteq {",", " "}
BadToken   == "x" \in InputChars
Displayed(tag) == \E k \in DOMAIN stdout : stdout[k].tag = tag

C7_ExitStatus ==
    /\ exit \in {-1, 0, 1}
    /\ pc = "exited" <=> exit # -1
    /\ exit = 1 <=> (pc = "exited" /\
                       (EndOfInput \/ NoToken \/ BadToken \/ exc = "Input list is empty"))
    /\ exit = 0 <=> (Displayed("Sorted") /\ Displayed("Median"))
    /\ (Displayed("Sorted") \/ Displayed("Median")) => exit = 0
    /\ exit = 0 =>
          /\ heap["L0"] # << >>
          /\ \E k \in DOMAIN stdout :
                /\ stdout[k].tag = "Sorted"
                /\ IsSorted(stdout[k].list)
                /\ IsPermutation(stdout[k].list, heap["L0"])
          /\ \E k \in DOMAIN stdout :
                stdout[k].tag = "Median" /\ MedianOf(heap["L0"], stdout[k].val)

C7_Witness ==
    /\ exit = 0
    /\ Len(heap["L0"]) >= 2
    /\ ~IsSorted(heap["L0"])

\* C6 (as amended): in every state of the menu program the favourites list
\* holds between 0 and 3 cities, and an add that reaches Favourites.add
\* while 3 cities are stored leaves the list unchanged and reports the
\* 'full' error, unless the city is already stored, in which case it reports
\* the 'already in favourites' error.
WithinCapacity == Len(items) \in 0..3

FullAddRejected ==
    (pc = "add_store" /\ Len(items) = 3) =>
        /\ items' = items
        /\ msg' = IF \E k \in DOMAIN items : items[k] = city
                  THEN "Already in favourites"
                  ELSE "Favourites is full"

C6_CapacityAmended == [] WithinCapacity /\ [][FullAddRejected]_vars

C6_Witness ==
    /\ pc = "loop"
    /\ Len(items) = 3
    /\ msg = "Favourites is full"
    /\ fetched = <<city, "ok">>

\* C6 as claimed: every add attempted while 3 cities are stored is rejected
\* with the 'full' error.
FullAddReportsFull ==
    (pc = "add_store" /\ Len(items) = 3) =>
        /\ items' = items
        /\ msg' = "Favourites is full"

C6_Original == [] WithinCapacity /\ [][FullAddReportsFull]_vars

\* C9: in the add flow a city is appended to the favourites only after the
\* fetch for that city succeeded; a failed fetch or an empty name leaves the
\* list unchanged, and nothing else makes the list grow.
StoreOnlyFetched ==
    pc = "add_store" => (city # << >> /\ fetched = <<city, "ok">>)

AddFlowSteps ==
    /\ Len(items') > Len(items) =>
          /\ pc = "add_store"
          /\ fetched = <<city, "ok">>
          /\ items' = Append(items, city)
    /\ (pc = "add_fetch" /\ fetched'[2] # "ok") =>
          /\ items' = items
          /\ pc' = "loop"
          /\ msg' = fetched'[2]
    /\ (pc = "add_flow" /\ city' = << >>) =>
          /\ items' = items
          /\ pc' = "loop"

C9_FetchBeforeStore == [] StoreOnlyFetched /\ [][AddFlowSteps]_vars

C9_Witness ==
    /\ pc = "loop"
    /\ msg = "Added to favourites"
    /\ Len(items) = 2
    /\ items[2] = city
    /\ fetched = <<city, "ok">>

\* C10: under any sequence of add and remove calls the stored names are
\* stripped, non-empty and pairwise distinct; an add of an empty name, of a
\* stored name or on a full list and a remove of a name that is not stored
\* raise an error, and a call that raises leaves the list as it was.
DistinctNames ==
    /\ \A k \in DOMAIN items :
          /\ items[k] # << >>
          /\ items[k][1] # " " /\ items[k][Len(items[k])] # " "
    /\ \A a, b \in DOMAIN items : a # b => items[a] # items[b]

RejectedCalls ==
    LET name   == Strip(city')
        stored == \E k \in DOMAIN items : items[k] = name
    IN  /\ msg' # "none" => items' = items
        /\ (op' = "add" /\ (name = << >> \/ stored \/ Len(items) >= 3)) => msg' # "none"
        /\ (op' = "add" /\ msg' = "none") => items' = Append(items, name)
        /\ (op' = "remove" /\ ~stored) => msg' = "Not in favourites"
        /\ (op' = "remove" /\ stored) =>
              /\ msg' = "none"
              /\ Len(items') = Len(items) - 1
              /\ \A k \in DOMAIN items' : items'[k] # name

C10_DistinctNames == [] DistinctNames /\ [][RejectedCalls]_vars

C10_Witness ==
    /\ Len(items) = 3
    /\ op = "add"
    /\ msg = "Already in favourites"
    /\ city # Strip(city)

===========================================================================
